---- MODULE Spec2Model ----
(***************************************************************************)
(* MotionToMIDI (src/app.py): the per-region motion-to-trigger state       *)
(* machine of the /detect handler, the configuration handlers that mutate  *)
(* the process-global dictionaries, and the detached note-off threads.     *)
(*                                                                         *)
(* A /detect request is a sequence of steps: DetectBegin, then for each     *)
(* region of roi_list DetectDecide and, when should_trigger is True,       *)
(* DetectFire, then DetectEnd.  The other handlers are one step each.      *)
(*                                                                         *)
(* Spec     : the trigger arbiter; requests are served one at a time       *)
(*            (spec.md section 5), so no other request runs between the    *)
(*            steps of a /detect request.                                  *)
(* SpecMidi : the same with MIDI notes assigned and note-off threads.      *)
(* SpecConc : the threaded development server dispatches /detect requests  *)
(*            concurrently; no lock protects the dictionaries.             *)
(* SpecFrames : the arbiter with frame payloads that differ and payloads   *)
(*            that cannot be decoded.                                      *)
(* SpecSound : the sound-asset handlers /upload_sound and /remove_sound.   *)
(* SpecPixels : the percentage-to-pixel conversion of a region's box.      *)
(***************************************************************************)
EXTENDS Integers, Sequences, FiniteSets, TLC

\* ---- bounds of the model ----------------------------------------------
MaxTime == 4            \* the clock is explored from StartTime to MaxTime

\* ---- program constants ------------------------------------------------
Cooldown == 2           \* time_since_last_trigger >= 2.0
NoteOffDelay == 2       \* time.sleep(2.0) in send_note_off
LastTriggerDefault == 0 \* roi_last_trigger.get(roi_id, 0)
Velocity == 100         \* [0x90, midi_note, 100]
MotionThreshold == 500  \* per-region area threshold
GlobalThreshold == 2000 \* full-mask area threshold

\* time.time() is seconds since 1970: every reading is far beyond Cooldown.
StartTime == Cooldown
Time == StartTime..MaxTime

RoiIds == {1, 2}        \* region ids a client sends
NoId == 0               \* a missing / null / empty roi_id (falsy in Python)
GlobalKey == 0          \* the 'global' key of motion_results
Notes == {60, 62}       \* MIDI notes a client assigns
NoteRequests == {<<1, 60>>, <<2, 62>>}   \* set_midi_note requests: (roi_id, note)
NoNote == -1            \* Python None for a MIDI note
Modes == {"restart", "finish"}
Coords == {"box"}       \* a non-empty roi_coords mapping
NoCoords == "none"      \* a null or empty roi_coords (falsy in Python)
Areas == {MotionThreshold, MotionThreshold + 1}
GlobalAreas == {GlobalThreshold, GlobalThreshold + 1}
Threads == {1, 2}       \* request-handling threads of the server
Frame == 1              \* the image of a well-formed frame payload
Frames == {1, 2}        \* images of well-formed frame payloads
Undecodable == -1       \* a payload lines 61-66 raise on
Payloads == Frames \cup {Undecodable}
NoFrame == <<>>         \* Python None for prev_frame
NoRequest == -1         \* the latest step was not a /clear_roi request

\* Strings a client chooses are sequences of the pieces that "_" separates.
FormIds == {<<"1">>, <<"1", "a">>, <<"2">>}    \* roi_id fields: "1", "1_a", "2"
NoFormId == <<>>                               \* a missing or empty roi_id
FileNames == {<<"x">>, <<"a", "x">>, <<"y">>}  \* file names: "x", "a_x", "y"
NoFileName == <<>>                             \* file.filename == ''

\* Bounding boxes in percent (any number a client sends) and mask shapes (h, w).
Percents == {-10, 0, 40, 41, 100, 150}
Boxes == {<<x1, y1, x2, y2>> : x1 \in Percents, y1 \in Percents,
                               x2 \in Percents, y2 \in Percents}
Shapes == {<<48, 50>>, <<50, 64>>}
NoBox == <<>>

\* ---- Python dict helpers ----------------------------------------------
Get(d, k, default) == IF k \in DOMAIN d THEN d[k] ELSE default
Put(d, k, v) == [x \in DOMAIN d \cup {k} |-> IF x = k THEN v ELSE d[x]]
Pop(d, k) == [x \in DOMAIN d \ {k} |-> d[x]]
EmptyDict == [x \in {} |-> 0]

\* roi_list is an insertion-ordered dict: a sequence of [id, coords].
RoiKeys(rl) == {rl[i].id : i \in 1..Len(rl)}
RoiPut(rl, k, c) ==
    IF k \in RoiKeys(rl)
    THEN [i \in 1..Len(rl) |-> IF rl[i].id = k THEN [id |-> k, coords |-> c] ELSE rl[i]]
    ELSE Append(rl, [id |-> k, coords |-> c])
RoiDel(rl, k) == SelectSeq(rl, LAMBDA e : e.id # k)

VARIABLES
    prev_frame,          \* the previous blurred frame, or NoFrame
    roi_list,            \* region registry
    roi_midi_notes,      \* {roi_id: midi_note}
    roi_play_modes,      \* {roi_id: 'restart'/'finish'}
    roi_last_trigger,    \* {roi_id: timestamp}
    roi_playing_status,  \* {roi_id: boolean}
    simultaneous_play,
    now,                 \* the reading time.time() returns
    pc,                  \* per thread: position inside detect()
    idx,                 \* per thread: position of the region loop
    play_mode,           \* per thread: local play_mode
    currently_playing,   \* per thread: local currently_playing
    motion_detected,     \* per thread: local motion_detected
    motion_area,         \* per thread: local motion_area
    midi_note,           \* per thread: local midi_note (closure cell)
    motion_results,      \* per thread: local motion_results
    frame_gray,          \* per thread: local frame_gray
    noteoffs,            \* live send_note_off threads
    midi_out,            \* messages handed to midiout by the latest step
    silenced,            \* regions stopped (line 116) by the latest step
    clear_arg,           \* roi_id of the /clear_roi request the latest step served
    sound_files,         \* {roi_id: filename}
    static_files,        \* names of the files in the static directory
    box,                 \* roi_coords of the region being sliced, in percent: x1, y1, x2, y2
    shape,               \* thresh.shape: h, w
    pixels,              \* pixel box of lines 84-85: x1, y1, x2, y2
    roi_thresh,          \* shape of the slice of line 87: rows, columns
    fired_at,            \* history: time of each region's latest trigger
    purged_at,           \* history: time of the trigger a deletion purged, until the next trigger
    ever_registered,     \* history: ids that have been in roi_list
    ever_finish          \* history: ids whose play mode has been finish

globals == <<prev_frame, roi_list, roi_midi_notes, roi_play_modes,
             roi_last_trigger, roi_playing_status, simultaneous_play>>
locals == <<pc, idx, play_mode, currently_playing, motion_detected, motion_area,
            midi_note, motion_results, frame_gray>>
history == <<fired_at, purged_at, ever_registered, ever_finish>>
assets == <<sound_files, static_files>>
geometry == <<box, shape, pixels, roi_thresh>>
detector == <<globals, now, locals, noteoffs, midi_out, silenced, clear_arg,
              history>>
vars == <<detector, assets, geometry>>

AllIdle == \A t \in Threads : pc[t] = "idle"
NoFire == [r \in RoiIds |-> -1]

InitDetector ==
    /\ prev_frame = NoFrame
    /\ roi_list = <<>>
    /\ roi_midi_notes = EmptyDict
    /\ roi_play_modes = EmptyDict
    /\ roi_last_trigger = EmptyDict
    /\ roi_playing_status = EmptyDict
    /\ simultaneous_play = TRUE
    /\ now = StartTime
    /\ pc = [t \in Threads |-> "idle"]
    /\ idx = [t \in Threads |-> 0]
    /\ play_mode = [t \in Threads |-> "restart"]
    /\ currently_playing = [t \in Threads |-> FALSE]
    /\ motion_detected = [t \in Threads |-> FALSE]
    /\ motion_area = [t \in Threads |-> 0]
    /\ midi_note = [t \in Threads |-> NoNote]
    /\ motion_results = [t \in Threads |-> EmptyDict]
    /\ frame_gray = [t \in Threads |-> NoFrame]
    /\ noteoffs = <<>>
    /\ midi_out = <<>>
    /\ silenced = {}
    /\ clear_arg = NoRequest
    /\ fired_at = NoFire
    /\ purged_at = NoFire
    /\ ever_registered = {}
    /\ ever_finish = {}
    /\ sound_files = EmptyDict
    /\ static_files = {}

\* No region is being sliced.
Init ==
    /\ InitDetector
    /\ box = NoBox /\ shape = NoBox /\ pixels = NoBox /\ roi_thresh = NoBox

quiet == midi_out' = <<>> /\ silenced' = {} /\ clear_arg' = NoRequest

\* A restart region that waits for its sound to finish.
ShouldTrigger_RestartWaits(motion, current_time, last_trigger_time, mode, playing) ==
    motion /\ current_time - last_trigger_time >= Cooldown /\ ~playing

\* A finish region that does not look at is_playing.
ShouldTrigger_FinishRestarts(motion, current_time, last_trigger_time, mode, playing) ==
    motion /\ current_time - last_trigger_time >= Cooldown

\* ---- /detect ----------------------------------------------------------
\* Lines 97-108: the trigger decision.
ShouldTrigger(motion, current_time, last_trigger_time, mode, playing) ==
    IF motion
    THEN IF current_time - last_trigger_time >= Cooldown
         THEN IF mode = "restart" THEN TRUE
              ELSE IF mode = "finish" /\ ~playing THEN TRUE
              ELSE FALSE
         ELSE FALSE
    ELSE FALSE

\* Lines 144-153: one entry of motion_results.
Result(motion, area, trigger, playing, stop) ==
    [motion |-> motion, motion_area |-> area, should_trigger |-> trigger,
     currently_playing |-> playing, stop_others |-> stop]

\* Motion at the threshold itself.
Motion_AtLeast(area, motion_threshold) == area >= motion_threshold

\* Lines 91 and 159: motion_area > motion_threshold.
Motion(area, motion_threshold) == area > motion_threshold

\* Single play mode that stops nobody.
StopOthers_Nobody(status, roi_id) == status

\* Lines 113-117: single play mode stops every other playing region.
StopOthers(status, roi_id) ==
    [o \in DOMAIN status |-> IF o # roi_id /\ status[o] THEN FALSE ELSE status[o]]
Stopped(status, roi_id) == {o \in DOMAIN status : o # roi_id /\ status[o]}

\* A request that joins the send_note_off threads it started.
Joined_Own(offs, t) == {i \in 1..Len(offs) : offs[i].cell = t}

\* Line 132: a send_note_off thread is started and never joined; the
\* threads a request waits for before its next statement.
Joined(offs, t) == {}

\* The region loop is left after the first region it handled.
NextPc_Abort(t) == "ret"

\* The region loop moves to the next item, or leaves the loop.
NextPc(t) == IF idx[t] + 1 > Len(roi_list) THEN "ret" ELSE "loop"

\* The frame is differenced whether or not a previous frame is held.
Differenced_Always(t) ==
    IF roi_list = <<>>
    THEN /\ \E area \in GlobalAreas :
              motion_results' = [motion_results EXCEPT ![t] =
                  Put(EmptyDict, GlobalKey,
                      Result(Motion(area, GlobalThreshold), area,
                             Motion(area, GlobalThreshold), FALSE, FALSE))]
         /\ pc' = [pc EXCEPT ![t] = "ret"]
         /\ UNCHANGED idx
    ELSE /\ pc' = [pc EXCEPT ![t] = "loop"]
         /\ idx' = [idx EXCEPT ![t] = 1]
         /\ UNCHANGED motion_results

\* Lines 71-76 and 155-171: without a previous frame nothing is differenced;
\* with an empty registry the loop body never runs and the global result is
\* computed.
Differenced(t) ==
    IF prev_frame = NoFrame
    THEN /\ pc' = [pc EXCEPT ![t] = "ret"]
         /\ UNCHANGED <<idx, motion_results>>
    ELSE IF roi_list = <<>>
    THEN /\ \E area \in GlobalAreas :
              motion_results' = [motion_results EXCEPT ![t] =
                  Put(EmptyDict, GlobalKey,
                      Result(Motion(area, GlobalThreshold), area,
                             Motion(area, GlobalThreshold), FALSE, FALSE))]
         /\ pc' = [pc EXCEPT ![t] = "ret"]
         /\ UNCHANGED idx
    ELSE /\ pc' = [pc EXCEPT ![t] = "loop"]
         /\ idx' = [idx EXCEPT ![t] = 1]
         /\ UNCHANGED motion_results

\* Lines 68-69: the grayscale, blurred frame of a decoded image.
GaussianBlur(image) == <<"gray", "blur", image>>

\* Lines 60-76 and 155-171: decode the frame and difference it against
\* prev_frame.  A payload that cannot be decoded raises before any
\* assignment to a global.
DetectBegin(t, image) ==
    /\ pc[t] = "idle"
    /\ IF image = Undecodable
       THEN /\ pc' = [pc EXCEPT ![t] = "raise"]
            /\ UNCHANGED <<idx, motion_results, frame_gray>>
       ELSE /\ frame_gray' = [frame_gray EXCEPT ![t] = GaussianBlur(image)]
            /\ Differenced(t)
    /\ quiet
    /\ UNCHANGED <<assets, geometry, globals, now, play_mode, currently_playing,
                   motion_detected, motion_area,
                   midi_note, noteoffs, history>>

\* Lines 79-108 (and 144-153 when the region does not trigger); a region
\* whose roi_coords is falsy is passed over (line 80).
DetectDecide(t) ==
    /\ pc[t] = "loop"
    /\ Joined(noteoffs, t) = {}
    /\ IF roi_list[idx[t]].coords = NoCoords
       THEN /\ pc' = [pc EXCEPT ![t] = NextPc(t)]
            /\ idx' = [idx EXCEPT ![t] = @ + 1]
            /\ UNCHANGED <<play_mode, currently_playing, motion_detected, motion_area,
                           motion_results>>
       ELSE LET roi_id == roi_list[idx[t]].id
                mode == Get(roi_play_modes, roi_id, "restart")
                playing == Get(roi_playing_status, roi_id, FALSE)
                last == Get(roi_last_trigger, roi_id, LastTriggerDefault)
            IN \E area \in Areas :
                 LET motion == Motion(area, MotionThreshold)
                     trigger == ShouldTrigger(motion, now, last, mode, playing)
                 IN /\ play_mode' = [play_mode EXCEPT ![t] = mode]
                    /\ currently_playing' = [currently_playing EXCEPT ![t] = playing]
                    /\ motion_detected' = [motion_detected EXCEPT ![t] = motion]
                    /\ motion_area' = [motion_area EXCEPT ![t] = area]
                    /\ IF trigger
                       THEN /\ pc' = [pc EXCEPT ![t] = "fire"]
                            /\ UNCHANGED <<idx, motion_results>>
                       ELSE /\ motion_results' = [motion_results EXCEPT ![t] =
                                   Put(@, roi_id, Result(motion, area, FALSE, playing, FALSE))]
                            /\ pc' = [pc EXCEPT ![t] = NextPc(t)]
                            /\ idx' = [idx EXCEPT ![t] = @ + 1]
    /\ quiet
    /\ UNCHANGED <<assets, geometry, globals, now, midi_note, frame_gray, noteoffs, history>>

\* The trigger time is not recorded.
RecordTrigger_Dropped(last, roi_id, t) == last

\* Line 140: the trigger time is recorded.
RecordTrigger(last, roi_id, t) == Put(last, roi_id, t)

\* Every trigger marks the region as playing.
UpdateStatus_Always(status, roi_id, mode) == Put(status, roi_id, TRUE)

\* Lines 141-142: only finish mode marks the region as playing.
UpdateStatus(status, roi_id, mode) ==
    IF mode = "finish" THEN Put(status, roi_id, TRUE) ELSE status

\* The note-on is sent without looking at the note.
Emit_Unchecked(note, sent) ==
    IF sent THEN <<[op |-> "on", note |-> note, vel |-> Velocity]>> ELSE <<>>

\* Lines 119-122 and 136-137: the note-on, when a note is assigned and the
\* sink accepts it.
Emit(note, sent) ==
    IF note # NoNote /\ sent
    THEN <<[op |-> "on", note |-> note, vel |-> Velocity]>>
    ELSE <<>>

\* Lines 126-132: the send_note_off thread started after a note-on; it
\* refers to midi_note of the call `t` that started it.
Spawn(offs, note, sent, t) ==
    IF note # NoNote /\ sent
    THEN Append(offs, [due |-> now + NoteOffDelay, cell |-> t,
                       val |-> note, orig |-> note])
    ELSE offs

\* Lines 111-153 for a region whose should_trigger is True.
DetectFire(t) ==
    /\ pc[t] = "fire"
    /\ Joined(noteoffs, t) = {}
    /\ LET roi_id == roi_list[idx[t]].id
           note == Get(roi_midi_notes, roi_id, NoNote)
           status1 == IF ~simultaneous_play
                      THEN StopOthers(roi_playing_status, roi_id)
                      ELSE roi_playing_status
       IN /\ silenced' = IF ~simultaneous_play
                         THEN Stopped(roi_playing_status, roi_id) ELSE {}
          /\ midi_note' = [midi_note EXCEPT ![t] = note]
          /\ \E sent \in BOOLEAN :       \* send_message may raise
                /\ midi_out' = Emit(note, sent)
                /\ noteoffs' = Spawn(noteoffs, note, sent, t)
          /\ roi_last_trigger' = RecordTrigger(roi_last_trigger, roi_id, now)
          /\ roi_playing_status' = UpdateStatus(status1, roi_id, play_mode[t])
          /\ fired_at' = [fired_at EXCEPT ![roi_id] = now]
          /\ purged_at' = [purged_at EXCEPT ![roi_id] = -1]
          /\ motion_results' = [motion_results EXCEPT ![t] =
                 Put(@, roi_id, Result(motion_detected[t], motion_area[t], TRUE,
                                       currently_playing[t], ~simultaneous_play))]
    /\ pc' = [pc EXCEPT ![t] = NextPc(t)]
    /\ idx' = [idx EXCEPT ![t] = @ + 1]
    /\ clear_arg' = NoRequest
    /\ UNCHANGED <<assets, geometry, prev_frame, roi_list, roi_midi_notes, roi_play_modes,
                   simultaneous_play, now, play_mode, currently_playing,
                   motion_detected, motion_area, frame_gray, ever_registered, ever_finish>>

\* When detect() returns, the closure cell of its send_note_off threads
\* keeps the last value midi_note had in that call.
Freeze(offs, t, note) ==
    [i \in 1..Len(offs) |->
        IF offs[i].cell = t THEN [offs[i] EXCEPT !.cell = 0, !.val = note]
        ELSE offs[i]]

\* Lines 173-177: store the frame and return the response.
DetectEnd(t) ==
    /\ pc[t] = "ret"
    /\ Joined(noteoffs, t) = {}
    /\ prev_frame' = frame_gray[t]
    /\ noteoffs' = Freeze(noteoffs, t, midi_note[t])
    /\ pc' = [pc EXCEPT ![t] = "idle"]
    /\ idx' = [idx EXCEPT ![t] = 0]
    /\ play_mode' = [play_mode EXCEPT ![t] = "restart"]
    /\ currently_playing' = [currently_playing EXCEPT ![t] = FALSE]
    /\ motion_detected' = [motion_detected EXCEPT ![t] = FALSE]
    /\ motion_area' = [motion_area EXCEPT ![t] = 0]
    /\ midi_note' = [midi_note EXCEPT ![t] = NoNote]
    /\ motion_results' = [motion_results EXCEPT ![t] = EmptyDict]
    /\ frame_gray' = [frame_gray EXCEPT ![t] = NoFrame]
    /\ quiet
    /\ UNCHANGED <<assets, geometry, roi_list, roi_midi_notes, roi_play_modes, roi_last_trigger,
                   roi_playing_status, simultaneous_play, now, history>>

\* An error path that forgets the previous frame.
DetectRaise_Resets(t) ==
    /\ pc[t] = "raise"
    /\ pc' = [pc EXCEPT ![t] = "idle"]
    /\ prev_frame' = NoFrame
    /\ quiet
    /\ UNCHANGED <<assets, geometry, roi_list, roi_midi_notes, roi_play_modes, roi_last_trigger,
                   roi_playing_status, simultaneous_play, now, idx, play_mode,
                   currently_playing, motion_detected, motion_area, midi_note,
                   motion_results, frame_gray, noteoffs, history>>

\* The exception of lines 61-66 leaves the handler: the request is
\* answered with an error and nothing was assigned.
DetectRaise(t) ==
    /\ pc[t] = "raise"
    /\ pc' = [pc EXCEPT ![t] = "idle"]
    /\ quiet
    /\ UNCHANGED <<assets, geometry, globals, now, idx, play_mode, currently_playing,
                   motion_detected, motion_area, midi_note, motion_results, frame_gray,
                   noteoffs, history>>

\* ---- send_note_off (lines 126-132) ------------------------------------
Remove(s, i) == [j \in 1..(Len(s) - 1) |-> IF j < i THEN s[j] ELSE s[j + 1]]
\* The note the thread reads from the enclosing call's midi_note.
CellValue(e) == IF e.cell # 0 THEN midi_note[e.cell] ELSE e.val

NoteOff(i) ==
    /\ i \in 1..Len(noteoffs)
    /\ noteoffs[i].due <= now          \* time.sleep(2.0) has returned
    /\ LET v == CellValue(noteoffs[i])
       IN \E sent \in BOOLEAN :        \* a failure is swallowed (except: pass)
            midi_out' = IF v # NoNote /\ sent
                        THEN <<[op |-> "off", note |-> v, vel |-> 0]>>
                        ELSE <<>>
    /\ noteoffs' = Remove(noteoffs, i)
    /\ silenced' = {}
    /\ clear_arg' = NoRequest
    /\ UNCHANGED <<assets, geometry, globals, now, locals, history>>

\* ---- the clock --------------------------------------------------------
\* A send_note_off thread whose sleep has ended runs before the clock
\* reading changes again.
Tick ==
    /\ now < MaxTime
    /\ \A i \in 1..Len(noteoffs) : noteoffs[i].due > now
    /\ now' = now + 1
    /\ quiet
    /\ UNCHANGED <<assets, geometry, globals, locals, noteoffs, history>>

\* ---- configuration handlers -------------------------------------------
\* Lines 179-188.
update_roi(roi_id, roi_coords) ==
    /\ roi_list' = RoiPut(roi_list, roi_id, roi_coords)
    /\ ever_registered' = ever_registered \cup {roi_id}
    /\ quiet
    /\ UNCHANGED <<assets, geometry, prev_frame, roi_midi_notes, roi_play_modes, roi_last_trigger,
                   roi_playing_status, simultaneous_play, now, locals, noteoffs,
                   fired_at, purged_at, ever_finish>>

\* A deletion that keeps the trigger time.
PurgeTrigger_Kept(last, roi_id) == last

\* Lines 204-205: the runtime state of a deleted region is dropped.
PurgeStatus(status, roi_id) == Pop(status, roi_id)
PurgeTrigger(last, roi_id) == Pop(last, roi_id)

\* Lines 195-213; roi_id = NoId is a request without a region id.
clear_roi(roi_id) ==
    /\ IF roi_id # NoId /\ roi_id \in RoiKeys(roi_list)
       THEN /\ roi_list' = RoiDel(roi_list, roi_id)
            /\ roi_playing_status' = PurgeStatus(roi_playing_status, roi_id)
            /\ roi_last_trigger' = PurgeTrigger(roi_last_trigger, roi_id)
            /\ fired_at' = [fired_at EXCEPT ![roi_id] = -1]
            /\ purged_at' = [purged_at EXCEPT ![roi_id] =
                                IF fired_at[roi_id] # -1 THEN fired_at[roi_id] ELSE @]
       ELSE /\ roi_list' = <<>>
            /\ roi_playing_status' = EmptyDict
            /\ roi_last_trigger' = EmptyDict
            /\ fired_at' = [r \in RoiIds |->
                              IF r \in RoiKeys(roi_list) THEN -1 ELSE fired_at[r]]
            /\ purged_at' = [r \in RoiIds |->
                               IF r \in RoiKeys(roi_list) /\ fired_at[r] # -1
                               THEN fired_at[r] ELSE purged_at[r]]
    /\ midi_out' = <<>> /\ silenced' = {}
    /\ clear_arg' = roi_id
    /\ UNCHANGED <<assets, geometry, prev_frame, roi_midi_notes, roi_play_modes, simultaneous_play,
                   now, locals, noteoffs, ever_registered, ever_finish>>

\* Lines 215-222.
set_midi_note(roi_id, note) ==
    /\ roi_midi_notes' = Put(roi_midi_notes, roi_id, note)
    /\ quiet
    /\ UNCHANGED <<assets, geometry, prev_frame, roi_list, roi_play_modes, roi_last_trigger,
                   roi_playing_status, simultaneous_play, now, locals, noteoffs,
                   history>>

\* Lines 224-231.
set_play_mode(roi_id, mode) ==
    /\ roi_play_modes' = Put(roi_play_modes, roi_id, mode)
    /\ ever_finish' = IF mode = "finish" THEN ever_finish \cup {roi_id}
                      ELSE ever_finish
    /\ quiet
    /\ UNCHANGED <<assets, geometry, prev_frame, roi_list, roi_midi_notes, roi_last_trigger,
                   roi_playing_status, simultaneous_play, now, locals, noteoffs,
                   fired_at, purged_at, ever_registered>>

\* Lines 233-239.
set_simultaneous_play(b) ==
    /\ simultaneous_play' = b
    /\ quiet
    /\ UNCHANGED <<assets, geometry, prev_frame, roi_list, roi_midi_notes, roi_play_modes,
                   roi_last_trigger, roi_playing_status, now, locals, noteoffs,
                   history>>

\* Lines 245-251.
sound_finished(roi_id) ==
    /\ roi_playing_status' = Put(roi_playing_status, roi_id, FALSE)
    /\ quiet
    /\ UNCHANGED <<assets, geometry, prev_frame, roi_list, roi_midi_notes, roi_play_modes,
                   roi_last_trigger, simultaneous_play, now, locals, noteoffs,
                   history>>

\* ---- sound assets ------------------------------------------------------
\* Line 267: f"roi_{roi_id}_{file.filename}".
StoredName(roi_id, filename) == <<"roi">> \o roi_id \o filename

\* Lines 253-275; has_file: the request carries a 'sound_file' part.
upload_sound(has_file, roi_id, filename) ==
    /\ IF ~has_file \/ filename = NoFileName \/ roi_id = NoFormId
       THEN UNCHANGED assets                       \* answered with 400
       ELSE /\ static_files' = static_files \cup {StoredName(roi_id, filename)}
            /\ sound_files' = Put(sound_files, roi_id, StoredName(roi_id, filename))
    /\ UNCHANGED <<detector, geometry>>

\* Lines 277-308; os.remove may fail, which is logged and passed over.
remove_sound(roi_id) ==
    /\ IF roi_id = NoFormId
       THEN UNCHANGED assets                       \* answered with 400
       ELSE IF roi_id \in DOMAIN sound_files
       THEN /\ \E removed \in BOOLEAN :
                 static_files' = IF removed THEN static_files \ {sound_files[roi_id]}
                                 ELSE static_files
            /\ sound_files' = Pop(sound_files, roi_id)
       ELSE UNCHANGED assets                       \* answered with 404
    /\ UNCHANGED <<detector, geometry>>

\* ---- pixel box of a region (lines 81-87) -------------------------------
\* int(): the integer part of n / d, rounded towards zero.
Trunc(n, d) == IF n >= 0 THEN n \div d ELSE -((-n) \div d)

\* Lines 84-85: int(x * w / 100), int(y * h / 100).
ToPixels(coords, hw) ==
    <<Trunc(coords[1] * hw[2], 100), Trunc(coords[2] * hw[1], 100),
      Trunc(coords[3] * hw[2], 100), Trunc(coords[4] * hw[1], 100)>>

\* A slice bound as numpy reads it: a negative bound counts from the end,
\* and a bound outside the axis is the nearest end of the axis.
SliceBound(i, n) ==
    IF i < 0 THEN (IF i + n < 0 THEN 0 ELSE i + n)
    ELSE IF i > n THEN n ELSE i
SliceLen(start, stop, n) ==
    IF SliceBound(stop, n) > SliceBound(start, n)
    THEN SliceBound(stop, n) - SliceBound(start, n) ELSE 0

\* Lines 81-87: the pixel box and the slice thresh[y1:y2, x1:x2] of a region.
Slice ==
    /\ pixels = NoBox
    /\ pixels' = ToPixels(box, shape)
    /\ roi_thresh' = <<SliceLen(pixels'[2], pixels'[4], shape[1]),
                       SliceLen(pixels'[1], pixels'[3], shape[2])>>
    /\ UNCHANGED <<detector, assets, box, shape>>

\* ---- specifications ---------------------------------------------------
Serving == {1}          \* the thread that serves requests one at a time

\* The trigger arbiter: one request at a time, no MIDI note assigned.
Next ==
    \/ \E r \in RoiIds, c \in Coords : AllIdle /\ update_roi(r, c)
    \/ \E r \in RoiIds \cup {NoId} : AllIdle /\ clear_roi(r)
    \/ \E r \in RoiIds, m \in Modes : AllIdle /\ set_play_mode(r, m)
    \/ \E b \in BOOLEAN : AllIdle /\ set_simultaneous_play(b)
    \/ \E r \in RoiIds : AllIdle /\ sound_finished(r)
    \/ \E t \in Serving : AllIdle /\ DetectBegin(t, Frame)
    \/ \E t \in Serving : DetectDecide(t)
    \/ \E t \in Serving : DetectFire(t)
    \/ \E t \in Serving : DetectEnd(t)
    \/ Tick
Spec == Init /\ [][Next]_vars

\* MIDI emission: one request at a time, notes assigned, note-off threads;
\* regions are registered and never deleted, play modes go from the default
\* to finish.
NextMidi ==
    \/ \E r \in RoiIds, c \in Coords : AllIdle /\ update_roi(r, c)
    \/ \E q \in NoteRequests : AllIdle /\ set_midi_note(q[1], q[2])
    \/ \E r \in RoiIds : AllIdle /\ set_play_mode(r, "finish")
    \/ \E b \in BOOLEAN : AllIdle /\ set_simultaneous_play(b)
    \/ \E r \in RoiIds : AllIdle /\ sound_finished(r)
    \/ \E t \in Serving : AllIdle /\ DetectBegin(t, Frame)
    \/ \E t \in Serving : DetectDecide(t)
    \/ \E t \in Serving : DetectFire(t)
    \/ \E t \in Serving : DetectEnd(t)
    \/ \E i \in 1..Len(noteoffs) : NoteOff(i)
    \/ Tick
SpecMidi == Init /\ [][NextMidi]_vars

\* Concurrent /detect requests of the threaded server (app.run, line 342):
\* no lock guards the dictionaries.  The registry is set up between requests.
NextConc ==
    \/ \E r \in RoiIds, c \in Coords : AllIdle /\ update_roi(r, c)
    \/ \E t \in Threads : DetectBegin(t, Frame)
    \/ \E t \in Threads : DetectDecide(t)
    \/ \E t \in Threads : DetectFire(t)
    \/ \E t \in Threads : DetectEnd(t)
    \/ Tick
SpecConc == Init /\ [][NextConc]_vars

\* Frame payloads: one request at a time; the frames differ, a payload may
\* be one that cannot be decoded, and a region may be registered with a null
\* or empty roi_coords.
NextFrames ==
    \/ \E r \in RoiIds, c \in Coords \cup {NoCoords} : AllIdle /\ update_roi(r, c)
    \/ \E r \in RoiIds \cup {NoId} : AllIdle /\ clear_roi(r)
    \/ \E r \in RoiIds : AllIdle /\ set_play_mode(r, "finish")
    \/ \E r \in RoiIds : AllIdle /\ sound_finished(r)
    \/ \E t \in Serving, image \in Payloads : AllIdle /\ DetectBegin(t, image)
    \/ \E t \in Serving : DetectDecide(t)
    \/ \E t \in Serving : DetectFire(t)
    \/ \E t \in Serving : DetectEnd(t)
    \/ \E t \in Serving : DetectRaise(t)
    \/ Tick
SpecFrames == Init /\ [][NextFrames]_vars

\* ---- properties -------------------------------------------------------
\* The region a request is evaluating (pc "loop") or triggering (pc "fire").
CurRoi(t) == roi_list[idx[t]].id
\* The request t evaluates one region (lines 79-108) in this step.
DecideStep(t) ==
    /\ pc[t] = "loop" /\ roi_list[idx[t]].coords # NoCoords
    /\ (pc'[t] = "fire" \/ idx'[t] = idx[t] + 1)
\* The request t triggers one region (lines 111-142) in this step.
FireStep(t) == pc[t] = "fire" /\ pc'[t] # "fire"
\* At least 2.0 s since the recorded last_trigger_time (never: 0).
CooldownOver(r) ==
    now - Get(roi_last_trigger, r, LastTriggerDefault) >= Cooldown
\* At least 2.0 s since the region's latest trigger, if it had one since it
\* was registered.
SinceFire(r) == fired_at[r] = -1 \/ now - fired_at[r] >= Cooldown
ModeOf(r) == Get(roi_play_modes, r, "restart")
Playing(status, r) == Get(status, r, FALSE)
SameEntry(r) ==
    /\ (r \in DOMAIN roi_playing_status') = (r \in DOMAIN roi_playing_status)
    /\ Playing(roi_playing_status', r) = Playing(roi_playing_status, r)

\* The bookkeeping of a trigger of CurRoi(t): last_trigger_time is the
\* current time; is_playing becomes true in finish mode and is left as it
\* was otherwise.
Bookkeeping(t) ==
    LET r == CurRoi(t)
    IN /\ r \in DOMAIN roi_last_trigger' /\ roi_last_trigger'[r] = now
       /\ play_mode[t] = ModeOf(r)
       /\ IF play_mode[t] = "finish"
          THEN r \in DOMAIN roi_playing_status' /\ roi_playing_status'[r]
          ELSE SameEntry(r)

\* The arbitration of a trigger of CurRoi(t): in single play mode every
\* other playing region is stopped and reported; in simultaneous mode no
\* other region is touched and nothing is reported.
Preemption(t) ==
    LET r == CurRoi(t)
        others == {b \in DOMAIN roi_playing_status :
                     b # r /\ roi_playing_status[b]}
    IN IF ~simultaneous_play
       THEN /\ \A b \in others :
                 b \in DOMAIN roi_playing_status' /\ ~roi_playing_status'[b]
            /\ silenced' = others
            /\ motion_results'[t][r].stop_others
       ELSE /\ \A b \in RoiIds \ {r} : SameEntry(b)
            /\ silenced' = {}
            /\ ~motion_results'[t][r].stop_others

\* C1: in restart mode a motion event triggers exactly when at least 2.0 s
\* have passed since the region's last_trigger_time (equally: since its
\* latest trigger), whatever is_playing is.
C1_RestartTrigger ==
    [][\A t \in Threads :
          (DecideStep(t) /\ motion_detected'[t] /\ ModeOf(CurRoi(t)) = "restart")
          => /\ (pc'[t] = "fire") <=> CooldownOver(CurRoi(t))
             /\ (pc'[t] = "fire") <=> SinceFire(CurRoi(t))]_vars

\* A restart region that is marked playing and has triggered before is
\* about to trigger again.
C1_Witness ==
    \E t \in Threads :
        /\ pc[t] = "fire" /\ play_mode[t] = "restart" /\ currently_playing[t]
        /\ fired_at[CurRoi(t)] # -1

\* C2: in finish mode a motion event never triggers while is_playing is
\* true, whatever time has passed; with is_playing false it triggers once
\* 2.0 s have passed since last_trigger_time.
C2_FinishTrigger ==
    [][\A t \in Threads :
          (DecideStep(t) /\ ModeOf(CurRoi(t)) = "finish")
          => /\ Playing(roi_playing_status, CurRoi(t)) => pc'[t] # "fire"
             /\ (motion_detected'[t] /\ ~Playing(roi_playing_status, CurRoi(t))
                 /\ CooldownOver(CurRoi(t))) => pc'[t] = "fire"]_vars

\* The only region ever registered, in finish mode, triggers a second time:
\* its is_playing entry was cleared by sound_finished.
C2_Witness ==
    \E t \in Threads :
        /\ pc[t] = "fire" /\ play_mode[t] = "finish"
        /\ fired_at[CurRoi(t)] # -1
        /\ ever_registered = {CurRoi(t)}
        /\ CurRoi(t) \in DOMAIN roi_playing_status

\* C3: a region is only found to trigger when 2.0 s have passed since its
\* last_trigger_time, and two triggers of a region that was not deleted in
\* between are at least 2.0 s apart.
C3_Cooldown ==
    [][\A t \in Threads :
          /\ (DecideStep(t) /\ pc'[t] = "fire") => CooldownOver(CurRoi(t))
          /\ FireStep(t) => SinceFire(CurRoi(t))]_vars

\* A region with a note that has triggered before triggers again.
C3_Witness ==
    \E t \in Threads :
        /\ pc[t] = "fire" /\ fired_at[CurRoi(t)] # -1
        /\ CurRoi(t) \in DOMAIN roi_midi_notes

\* C4: the read-decide-update sequence is atomic: when a request records a
\* trigger, at least 2.0 s have passed since the region's current
\* last_trigger_time, so concurrent requests never trigger a region twice
\* within one cooldown window.
C4_AtomicTrigger ==
    [][\A t \in Threads : FireStep(t) => CooldownOver(CurRoi(t))]_vars

\* C5: a trigger in single play mode forces is_playing of every other
\* playing region to false and reports those regions as stopped; a trigger
\* in simultaneous mode changes no other region and reports none.
C5_Arbitration ==
    [][\A t \in Threads : FireStep(t) => Preemption(t)]_vars

\* A trigger has just stopped another playing region.
C5_Witness ==
    /\ silenced # {}
    /\ \A b \in silenced : ~roi_playing_status[b]

\* C6: the note-off message a send_note_off thread sends, 2.0 s after the
\* note-on and after the detection call has returned, carries the note of
\* the note-on that started the thread.
C6_NoteOffMatches ==
    [][\A i \in 1..Len(noteoffs) :
          (noteoffs[i].due <= now /\ noteoffs[i].cell = 0
           /\ noteoffs' = Remove(noteoffs, i) /\ midi_out' # <<>>)
          => midi_out'[1] = [op |-> "off", note |-> noteoffs[i].orig, vel |-> 0]]_vars

\* C7: a trigger sets last_trigger_time to the current time and sets
\* is_playing to true exactly in finish mode; a region whose play mode was
\* never finish is never playing.
C7_SideEffects ==
    /\ [](\A r \in RoiIds \ ever_finish : ~Playing(roi_playing_status, r))
    /\ [][\A t \in Threads : FireStep(t) => Bookkeeping(t)]_vars

\* A region that was never in finish mode has triggered and is not playing,
\* while a region in finish mode has triggered and is playing.
C7_Witness ==
    \E r, f \in RoiIds :
        /\ r \notin ever_finish /\ fired_at[r] # -1
        /\ ModeOf(f) = "finish" /\ fired_at[f] # -1
        /\ Playing(roi_playing_status, f)

\* C8: a deletion drops the region's last_trigger_time and is_playing, and
\* the first motion event on a region that has not triggered since it was
\* registered (again) triggers.
C8_Purge ==
    [][/\ \A r \in RoiIds :
            (r \in RoiKeys(roi_list) /\ r \notin RoiKeys(roi_list'))
            => (r \notin DOMAIN roi_last_trigger'
                /\ r \notin DOMAIN roi_playing_status')
       /\ \A t \in Threads :
            (DecideStep(t) /\ motion_detected'[t] /\ fired_at[CurRoi(t)] = -1)
            => pc'[t] = "fire"]_vars

\* A region deleted less than 2.0 s after a trigger, and registered again,
\* is about to trigger.
C8_Witness ==
    \E t \in Threads :
        /\ pc[t] = "fire"
        /\ purged_at[CurRoi(t)] # -1
        /\ now - purged_at[CurRoi(t)] < Cooldown

\* C9: every id with an entry in roi_last_trigger or roi_playing_status is
\* or was in roi_list.
C9_RuntimeRegistered ==
    (DOMAIN roi_last_trigger \cup DOMAIN roi_playing_status) \subseteq ever_registered

\* C10: a trigger of a region without a MIDI note sends no MIDI message and
\* starts no note-off thread; the bookkeeping and the arbitration of a
\* trigger are the same with and without a note.
C10_NoNote ==
    [][\A t \in Threads :
          FireStep(t)
          => /\ Bookkeeping(t) /\ Preemption(t)
             /\ CurRoi(t) \notin DOMAIN roi_midi_notes
                => (midi_out' = <<>> /\ noteoffs' = noteoffs)]_vars

\* A finish-mode region without a note has just triggered and stopped the
\* other region, which has a note.
C10_Witness ==
    \E r \in RoiIds :
        /\ fired_at[r] = now /\ r \notin DOMAIN roi_midi_notes
        /\ Playing(roi_playing_status, r)
        /\ silenced # {} /\ silenced \subseteq DOMAIN roi_midi_notes
        /\ midi_out = <<>>

\* The sound-asset store.
NextSound ==
    \/ \E has_file \in BOOLEAN, r \in FormIds \cup {NoFormId},
          f \in FileNames \cup {NoFileName} : upload_sound(has_file, r, f)
    \/ \E r \in FormIds \cup {NoFormId} : remove_sound(r)
SpecSound == Init /\ [][NextSound]_vars

\* The pixel box: any box a client registers, sliced out of a mask.
InitPixels ==
    /\ InitDetector
    /\ box \in Boxes /\ shape \in Shapes /\ pixels = NoBox /\ roi_thresh = NoBox
NextPixels == Slice
SpecPixels == InitPixels /\ [][NextPixels]_vars

\* C11: a note-on the MIDI sink refuses does not abort the request: the
\* trigger's bookkeeping is done, its result is recorded and the loop goes
\* on with the next region; a note-off the sink refuses (or one that has no
\* note to send) changes nothing but the thread's own end.
C11_SinkFailure ==
    [][/\ \A t \in Threads :
            (FireStep(t) /\ CurRoi(t) \in DOMAIN roi_midi_notes /\ midi_out' = <<>>)
            => /\ Bookkeeping(t)
               /\ motion_results'[t][CurRoi(t)].should_trigger
               /\ idx'[t] = idx[t] + 1
               /\ pc'[t] = IF idx[t] < Len(roi_list) THEN "loop" ELSE "ret"
               /\ noteoffs' = noteoffs
       /\ \A i \in 1..Len(noteoffs) :
            (noteoffs[i].due <= now /\ noteoffs' = Remove(noteoffs, i)
             /\ midi_out' = <<>>)
            => UNCHANGED <<globals, now, locals>>]_vars

\* The first region of the frame has a note and its trigger is recorded,
\* no note-off thread was started for it, and the request is about to
\* evaluate the next region.
C11_Witness ==
    \E t \in Threads :
        /\ pc[t] = "loop" /\ idx[t] = 2
        /\ LET r == roi_list[1].id
           IN /\ r \in DOMAIN roi_midi_notes
              /\ r \in DOMAIN motion_results[t]
              /\ motion_results[t][r].should_trigger
              /\ roi_last_trigger[r] = now
              /\ \A i \in 1..Len(noteoffs) : noteoffs[i].due # now + NoteOffDelay

\* C12: a request that finds no previous frame goes straight to its
\* return with empty results, whatever the registry holds: no region is
\* evaluated or triggered, no message is sent, no global changes, and on
\* return the blurred frame of the request becomes the previous frame.
C12_FirstFrame ==
    [][\A t \in Threads :
          /\ (pc[t] = "idle" /\ pc'[t] \notin {"idle", "raise"}
              /\ prev_frame = NoFrame)
             => /\ pc'[t] = "ret"
                /\ motion_results'[t] = EmptyDict
                /\ frame_gray'[t] \in {GaussianBlur(f) : f \in Frames}
                /\ midi_out' = <<>> /\ silenced' = {}
                /\ UNCHANGED <<globals, noteoffs, fired_at>>
          /\ (pc[t] = "ret" /\ pc'[t] = "idle" /\ prev_frame = NoFrame)
             => /\ motion_results[t] = EmptyDict
                /\ prev_frame' = frame_gray[t]
                /\ prev_frame' # NoFrame
                /\ midi_out' = <<>> /\ silenced' = {}
                /\ UNCHANGED <<roi_list, roi_midi_notes, roi_play_modes,
                               roi_last_trigger, roi_playing_status,
                               simultaneous_play, noteoffs, fired_at>>]_vars

\* The first frame is about to return with two regions registered, one of
\* them in finish mode with an is_playing entry.
C12_Witness ==
    \E t \in Threads :
        /\ pc[t] = "ret" /\ prev_frame = NoFrame
        /\ Len(roi_list) = 2
        /\ \E r \in RoiKeys(roi_list) :
              ModeOf(r) = "finish" /\ r \in DOMAIN roi_playing_status

\* C13: a request whose payload cannot be decoded ends in an error without
\* evaluating a region, and neither its failure nor its end changes the
\* previous frame, the registry, the configuration or the runtime state;
\* the server is then ready for the next request.
C13_DecodeFailure ==
    [][\A t \in Threads :
          /\ (pc[t] # "raise" /\ pc'[t] = "raise")
             => /\ pc[t] = "idle"
                /\ frame_gray'[t] = NoFrame /\ motion_results'[t] = EmptyDict
                /\ midi_out' = <<>> /\ silenced' = {}
                /\ UNCHANGED <<globals, noteoffs, history>>
          /\ (pc[t] = "raise" /\ pc'[t] # "raise")
             => /\ pc'[t] = "idle"
                /\ frame_gray'[t] = NoFrame /\ motion_results'[t] = EmptyDict
                /\ midi_out' = <<>> /\ silenced' = {}
                /\ UNCHANGED <<globals, noteoffs, history>>]_vars

\* A request has failed to decode its payload while a previous frame is
\* held and a registered region has a recorded trigger.
C13_Witness ==
    \E t \in Threads :
        /\ pc[t] = "raise" /\ prev_frame # NoFrame
        /\ \E r \in RoiKeys(roi_list) : r \in DOMAIN roi_last_trigger

\* The entries a dictionary holds for r are the same before and after.
SameIn(d, e, r) == (r \in DOMAIN d) = (r \in DOMAIN e) /\ (r \in DOMAIN d => d[r] = e[r])
SameConfig(r) ==
    /\ SameIn(roi_midi_notes, roi_midi_notes', r)
    /\ SameIn(roi_play_modes, roi_play_modes', r)
SameRuntime(r) ==
    /\ SameIn(roi_last_trigger, roi_last_trigger', r)
    /\ SameIn(roi_playing_status, roi_playing_status', r)
SameRegion(r) ==
    /\ (r \in RoiKeys(roi_list)) = (r \in RoiKeys(roi_list'))
    /\ \A i \in 1..Len(roi_list), j \in 1..Len(roi_list') :
          (roi_list[i].id = r /\ roi_list'[j].id = r) => roi_list'[j] = roi_list[i]

\* C14: a configuration request that names a region id that is not
\* registered changes nothing: a /clear_roi request with such an id leaves
\* every global as it was, and no request other than /update_roi and
\* /clear_roi gives an unregistered id a note, a play mode, a trigger time
\* or an is_playing entry.
C14_UnknownRegion ==
    [][/\ clear_arg' \in RoiIds \ RoiKeys(roi_list) => UNCHANGED globals
       /\ (clear_arg' = NoRequest /\ roi_list' = roi_list)
          => \A r \in RoiIds \ RoiKeys(roi_list) : SameConfig(r) /\ SameRuntime(r)]_vars

\* C17: a /clear_roi request that carries a region id leaves every other
\* region's registry entry, trigger time and is_playing entry as they were.
C17_DeleteById ==
    [][clear_arg' \in RoiIds
       => \A r \in RoiIds \ {clear_arg'} : SameRegion(r) /\ SameRuntime(r)]_vars

\* C15: the pixel box the detector slices the mask with lies inside the
\* mask and has x1 < x2 and y1 < y2, whatever box was registered.
C15_PixelBox ==
    pixels # NoBox
    => /\ 0 <= pixels[1] /\ pixels[1] < pixels[3] /\ pixels[3] <= shape[2]
       /\ 0 <= pixels[2] /\ pixels[2] < pixels[4] /\ pixels[4] <= shape[1]

\* C16: every file name the mapping holds is the name of a stored file.
C16_NoDangling ==
    \A r \in DOMAIN sound_files : sound_files[r] \in static_files

NowPlaying(status) == {r \in DOMAIN status : status[r]}

\* C18: while simultaneous_play is false, no step takes the server from at
\* most one playing region to more than one; so from a state where no
\* region is playing, at most one region is playing for as long as
\* simultaneous_play stays false.
C18_Exclusive ==
    [][(~simultaneous_play /\ ~simultaneous_play'
        /\ Cardinality(NowPlaying(roi_playing_status)) <= 1)
       => Cardinality(NowPlaying(roi_playing_status')) <= 1]_vars

\* A request in single play mode is about to return after two finish-mode
\* regions triggered in it: the second one is the only one playing.
C18_Witness ==
    \E t \in Threads :
        /\ pc[t] = "ret" /\ ~simultaneous_play
        /\ Len(roi_list) = 2
        /\ \A r \in RoiKeys(roi_list) :
              /\ r \in DOMAIN motion_results[t]
              /\ motion_results[t][r].should_trigger
              /\ ModeOf(r) = "finish"
        /\ NowPlaying(roi_playing_status) = {roi_list[2].id}

\* The registered regions that have a bounding box.
Configured == {roi_list[i].id : i \in {j \in 1..Len(roi_list) : roi_list[j].coords # NoCoords}}

\* C19: every result has motion true exactly when its area is above the
\* threshold, 500 for a region and 2000 for the global result; a request
\* that differenced its frame returns one result per region with a bounding
\* box and no global result when the registry is not empty, and the global
\* result alone when it is empty; computing and returning the global result
\* changes no global, sends no message and stops no region.
C19_Results ==
    /\ [](\A t \in Threads :
            /\ \A k \in DOMAIN motion_results[t] :
                  motion_results[t][k].motion
                  = (motion_results[t][k].motion_area
                     > IF k = GlobalKey THEN GlobalThreshold ELSE MotionThreshold)
            /\ (pc[t] = "ret" /\ prev_frame # NoFrame)
               => DOMAIN motion_results[t]
                  = IF roi_list = <<>> THEN {GlobalKey} ELSE Configured)
    /\ [][\A t \in Threads :
            /\ (pc[t] = "idle" /\ GlobalKey \in DOMAIN motion_results'[t])
               => /\ pc'[t] = "ret" /\ roi_list = <<>>
                  /\ midi_out' = <<>> /\ silenced' = {}
                  /\ UNCHANGED <<globals, noteoffs>>
            /\ (pc[t] = "ret" /\ GlobalKey \in DOMAIN motion_results[t]
                /\ pc'[t] = "idle")
               => /\ midi_out' = <<>> /\ silenced' = {}
                  /\ UNCHANGED <<roi_list, roi_midi_notes, roi_play_modes,
                                 roi_last_trigger, roi_playing_status,
                                 simultaneous_play, noteoffs>>]_vars

\* A request is about to return the results of two regions, one with an
\* area of 500 and no motion, the other with an area of 501 and motion.
C19_Witness ==
    \E t \in Threads :
        /\ pc[t] = "ret" /\ prev_frame # NoFrame
        /\ DOMAIN motion_results[t] = RoiIds
        /\ \E a, b \in RoiIds :
              /\ motion_results[t][a].motion_area = MotionThreshold
              /\ ~motion_results[t][a].motion
              /\ motion_results[t][b].motion_area = MotionThreshold + 1
              /\ motion_results[t][b].motion

\* C20: a request never waits for a note-off: each of its steps can be
\* taken whatever note-off threads are pending, and a new request can begin;
\* a trigger whose note-on was sent has done its bookkeeping while the
\* note-off it started is still 2.0 s away; and the step that stops other
\* regions in single play mode sends nothing but the note-on of the region
\* that triggered.
C20_NonBlocking ==
    /\ [](\A t \in Threads :
            /\ pc[t] = "loop" => ENABLED DetectDecide(t)
            /\ pc[t] = "fire" => ENABLED DetectFire(t)
            /\ pc[t] = "ret" => ENABLED DetectEnd(t)
            /\ pc[t] = "idle" => ENABLED DetectBegin(t, Frame))
    /\ [](silenced # {} => \A i \in 1..Len(midi_out) : midi_out[i].op = "on")
    /\ [][\A t \in Threads :
            (FireStep(t) /\ midi_out' # <<>>)
            => /\ Bookkeeping(t)
               /\ midi_out' = <<[op |-> "on", note |-> roi_midi_notes[CurRoi(t)],
                                 vel |-> Velocity]>>
               /\ Len(noteoffs') = Len(noteoffs) + 1
               /\ noteoffs'[Len(noteoffs')].due = now + NoteOffDelay
               /\ noteoffs'[Len(noteoffs')].cell = t]_vars

\* A request is about to return after a trigger that sent its note-on and
\* stopped another region, while the note-off of an earlier request and
\* its own are still pending.
C20_Witness ==
    \E t \in Threads :
        /\ pc[t] = "ret" /\ silenced # {} /\ midi_out # <<>>
        /\ \E i, j \in 1..Len(noteoffs) :
              /\ noteoffs[i].cell = 0 /\ noteoffs[i].due > now
              /\ noteoffs[j].cell = t /\ noteoffs[j].due > now

TypeOK ==
    /\ prev_frame \in {NoFrame} \cup {GaussianBlur(f) : f \in Frames}
    /\ RoiKeys(roi_list) \subseteq RoiIds
    /\ DOMAIN roi_last_trigger \subseteq RoiIds
    /\ DOMAIN roi_playing_status \subseteq RoiIds
    /\ \A r \in DOMAIN roi_midi_notes : roi_midi_notes[r] \in Notes
    /\ \A r \in DOMAIN roi_play_modes : roi_play_modes[r] \in Modes
    /\ now \in Time
    /\ \A t \in Threads : pc[t] \in {"idle", "loop", "fire", "ret", "raise"}
    /\ clear_arg \in RoiIds \cup {NoId, NoRequest}
    /\ DOMAIN sound_files \subseteq FormIds
    /\ box \in Boxes \cup {NoBox} /\ shape \in Shapes \cup {NoBox}
====
